---------------------------- MODULE Spec2Model ----------------------------
(***************************************************************************)
(* Model of the llama3.2-vision Home Assistant scripts:                    *)
(*   detect-objects.py            (detect_objects, draw_detections, main)  *)
(*   ha-detect-object-details.py  (detect_objects, main)                   *)
(*   visualize.py                 (draw_detections)                        *)
(*                                                                         *)
(* Text is a sequence of units.  The structural characters { } [ ] : , "   *)
(* and the blank are units of their own; every other unit is an atom that  *)
(* stands for a run of ordinary characters (a word, a number literal).     *)
(* Numbers are kept in hundredths: the literal 0.25 is the integer 25.     *)
(* Products of a hundredths value and an integer are exact in the model;   *)
(* the scripts compute them in binary floating point.                      *)
(***************************************************************************)
EXTENDS Integers, Sequences, FiniteSets, TLC

(***************************************************************************)
(* Bounds of the model.                                                    *)
(***************************************************************************)
MaxDet == 2
MaxProse == 1

(***************************************************************************)
(* Python / JSON values.                                                   *)
(***************************************************************************)
None == [t |-> "null", s |-> <<>>, n |-> 0, a |-> <<>>]
Str(s) == [t |-> "str", s |-> s, n |-> 0, a |-> <<>>]
Num(n) == [t |-> "num", s |-> <<>>, n |-> n, a |-> <<>>]
Arr(items) == [t |-> "arr", s |-> <<>>, n |-> 0, a |-> items]
Obj(pairs) == [t |-> "obj", s |-> <<>>, n |-> 0, a |-> pairs]
KV(k, v) == [k |-> k, v |-> v]

\* bool(v)
Truthy(v) ==
  CASE v.t = "null" -> FALSE
    [] v.t = "str" -> v.s # <<>>
    [] v.t = "num" -> v.n # 0
    [] OTHER -> v.a # <<>>

\* key in d, for a dict d
Has(d, k) == \E j \in DOMAIN d.a : d.a[j].k = k

\* d[key], for a dict d that has the key
Item(d, k) == d.a[CHOOSE j \in DOMAIN d.a : d.a[j].k = k].v

\* d.get(key, default)
GetOr(d, k, default) == IF Has(d, k) THEN Item(d, k) ELSE default

\* d[key] = v while a dict is built: a repeated key keeps its place, the last value wins
ObjPut(pairs, k, v) ==
  IF \E j \in DOMAIN pairs : pairs[j].k = k
    THEN [j \in DOMAIN pairs |-> IF pairs[j].k = k THEN KV(k, v) ELSE pairs[j]]
    ELSE Append(pairs, KV(k, v))

\* hash(v) succeeds
Hashable(v) == v.t \in {"null", "str", "num"}

(***************************************************************************)
(* str.lower() and str.upper(), unit by unit.                              *)
(***************************************************************************)
LowerUnit(u) ==
  CASE u = "Car" -> "car"
    [] u = "CAR" -> "car"
    [] u = "Truck" -> "truck"
    [] u = "TRUCK" -> "truck"
    [] u = "Dog" -> "dog"
    [] OTHER -> u

UpperUnit(u) ==
  CASE u \in {"car", "Car"} -> "CAR"
    [] u \in {"truck", "Truck"} -> "TRUCK"
    [] u \in {"dog", "Dog"} -> "DOG"
    [] OTHER -> u

Lower(s) == [j \in DOMAIN s |-> LowerUnit(s[j])]
Upper(s) == [j \in DOMAIN s |-> UpperUnit(s[j])]

(***************************************************************************)
(* str.find, str.rfind and slicing (0-based, as in Python).                *)
(***************************************************************************)
Find(s, c) ==
  IF \E j \in DOMAIN s : s[j] = c
    THEN (CHOOSE j \in DOMAIN s : s[j] = c /\ \A h \in 1..(j - 1) : s[h] # c) - 1
    ELSE -1

RFind(s, c) ==
  IF \E j \in DOMAIN s : s[j] = c
    THEN (CHOOSE j \in DOMAIN s : s[j] = c /\ \A h \in (j + 1)..Len(s) : s[h] # c) - 1
    ELSE -1

\* s[a:b] for a >= 0 and b >= 0
Slice(s, a, b) ==
  LET hi == IF b < Len(s) THEN b ELSE Len(s)
  IN  IF a + 1 > hi THEN <<>> ELSE SubSeq(s, a + 1, hi)

(***************************************************************************)
(* json.loads: objects, arrays, strings, number literals and null, with    *)
(* blanks allowed between tokens.  true/false and escapes are left out.    *)
(***************************************************************************)
NumLit ==
  ("0" :> 0) @@ ("0.1" :> 10) @@ ("0.2" :> 20) @@ ("0.25" :> 25) @@ ("0.4" :> 40)
  @@ ("0.5" :> 50) @@ ("0.6" :> 60) @@ ("0.9" :> 90) @@ ("1.5" :> 150)

ParseFail == [ok |-> FALSE, v |-> None, p |-> 0]
ParseOk(v, p) == [ok |-> TRUE, v |-> v, p |-> p]

At(s, p) == IF p \in DOMAIN s THEN s[p] ELSE ""

RECURSIVE SkipWs(_, _)
SkipWs(s, p) == IF At(s, p) = " " THEN SkipWs(s, p + 1) ELSE p

RECURSIVE CloseQuote(_, _)
CloseQuote(s, p) ==
  IF p > Len(s) THEN 0 ELSE IF s[p] = "\"" THEN p ELSE CloseQuote(s, p + 1)

\* a string literal whose opening quote is at p
ParseString(s, p) ==
  LET q == CloseQuote(s, p + 1)
  IN  IF At(s, p) # "\"" \/ q = 0 THEN ParseFail
      ELSE ParseOk(Str(SubSeq(s, p + 1, q - 1)), q + 1)

RECURSIVE ParseValue(_, _)
RECURSIVE ParseMembers(_, _, _)
RECURSIVE ParseElements(_, _, _)

\* after "{" or ",": "key" : value, then "," or "}"
ParseMembers(s, p, acc) ==
  LET key == ParseString(s, SkipWs(s, p))
      colon == SkipWs(s, key.p)
      val == ParseValue(s, colon + 1)
      nxt == SkipWs(s, val.p)
      acc2 == ObjPut(acc, key.v.s, val.v)
  IN  IF ~key.ok \/ At(s, colon) # ":" THEN ParseFail
      ELSE IF ~val.ok THEN ParseFail
      ELSE IF At(s, nxt) = "," THEN ParseMembers(s, nxt + 1, acc2)
      ELSE IF At(s, nxt) = "}" THEN ParseOk(Obj(acc2), nxt + 1)
      ELSE ParseFail

\* after "[" or ",": value, then "," or "]"
ParseElements(s, p, acc) ==
  LET val == ParseValue(s, p)
      nxt == SkipWs(s, val.p)
      acc2 == Append(acc, val.v)
  IN  IF ~val.ok THEN ParseFail
      ELSE IF At(s, nxt) = "," THEN ParseElements(s, nxt + 1, acc2)
      ELSE IF At(s, nxt) = "]" THEN ParseOk(Arr(acc2), nxt + 1)
      ELSE ParseFail

ParseValue(s, p0) ==
  LET p == SkipWs(s, p0)
      c == At(s, p)
  IN  CASE c = "{" ->
             IF At(s, SkipWs(s, p + 1)) = "}"
               THEN ParseOk(Obj(<<>>), SkipWs(s, p + 1) + 1)
               ELSE ParseMembers(s, p + 1, <<>>)
        [] c = "[" ->
             IF At(s, SkipWs(s, p + 1)) = "]"
               THEN ParseOk(Arr(<<>>), SkipWs(s, p + 1) + 1)
               ELSE ParseElements(s, p + 1, <<>>)
        [] c = "\"" -> ParseString(s, p)
        [] c = "null" -> ParseOk(None, p + 1)
        [] c \in DOMAIN NumLit -> ParseOk(Num(NumLit[c]), p + 1)
        [] OTHER -> ParseFail

\* json.loads(s): ok is FALSE where it raises JSONDecodeError
JsonLoads(s) ==
  LET r == ParseValue(s, 1)
  IN  IF r.ok /\ SkipWs(s, r.p) = Len(s) + 1 THEN r ELSE ParseFail

(***************************************************************************)
(* json.dumps with the default separators ", " and ": ".                   *)
(***************************************************************************)
NumText(n) == CHOOSE u \in DOMAIN NumLit : NumLit[u] = n

RECURSIVE JsonDumps(_)
RECURSIVE DumpItems(_, _)
RECURSIVE DumpPairs(_, _)

DumpItems(items, j) ==
  IF j > Len(items) THEN <<>>
  ELSE (IF j > 1 THEN <<",", " ">> ELSE <<>>) \o JsonDumps(items[j]) \o DumpItems(items, j + 1)

DumpPairs(pairs, j) ==
  IF j > Len(pairs) THEN <<>>
  ELSE (IF j > 1 THEN <<",", " ">> ELSE <<>>)
       \o <<"\"">> \o pairs[j].k \o <<"\"", ":", " ">>
       \o JsonDumps(pairs[j].v) \o DumpPairs(pairs, j + 1)

JsonDumps(v) ==
  CASE v.t = "null" -> <<"null">>
    [] v.t = "num" -> <<NumText(v.n)>>
    [] v.t = "str" -> <<"\"">> \o v.s \o <<"\"">>
    [] v.t = "arr" -> <<"[">> \o DumpItems(v.a, 1) \o <<"]">>
    [] OTHER -> <<"{">> \o DumpPairs(v.a, 1) \o <<"}">>

(***************************************************************************)
(* Iteration and the pieces of draw_detections.                            *)
(***************************************************************************)
\* iter(v) succeeds
Iterable(v) == v.t \in {"arr", "str", "obj"}

\* list(v): a list's items, a string's characters, a dict's keys
Elements(v) ==
  CASE v.t = "arr" -> v.a
    [] v.t = "str" -> [j \in DOMAIN v.s |-> Str(<<v.s[j]>>)]
    [] v.t = "obj" -> [j \in DOMAIN v.a |-> Str(v.a[j].k)]
    [] OTHER -> <<>>

\* rounding to the nearest integer instead
IntNearest(num, den) ==
  IF num >= 0 THEN (2 * num + den) \div (2 * den) ELSE -((2 * (-num) + den) \div (2 * den))

\* int(x) for the quotient num/den, den > 0: truncation toward zero
IntTrunc(num, den) == IF num >= 0 THEN num \div den ELSE -((-num) \div den)

Raised(e) == [ok |-> FALSE, v |-> 0, exc |-> e]
Value(v) == [ok |-> TRUE, v |-> v, exc |-> ""]

\* int(bbox[k] * dim), k 0-based.  A string element is repeated dim times and
\* then read as an integer literal; of the digit strings only "0" is modelled
\* (a longer literal leaves the model's integer range).
Coord(bbox, k, dim) ==
  CASE bbox.t = "arr" ->
         IF k + 1 > Len(bbox.a) THEN Raised("IndexError")
         ELSE LET e == bbox.a[k + 1]
              IN  CASE e.t = "num" -> Value(IntTrunc(e.n * dim, 100))
                    [] e.t = "str" ->
                         IF e.s = <<"0">> /\ dim > 0 THEN Value(0) ELSE Raised("ValueError")
                    [] OTHER -> Raised("TypeError")
    [] bbox.t = "str" ->
         IF k + 1 > Len(bbox.s) THEN Raised("IndexError")
         ELSE IF bbox.s[k + 1] = "0" /\ dim > 0 THEN Value(0) ELSE Raised("ValueError")
    [] bbox.t = "obj" -> Raised("KeyError")
    [] OTHER -> Raised("TypeError")

\* f"{x:.2f}" for a non-negative number x given in hundredths
Format2f(n) ==
  <<ToString(n \div 100), ".", ToString((n % 100) \div 10), ToString(n % 10)>>

\* str(v) inside an f-string
StrOf(v) == IF v.t = "str" THEN v.s ELSE IF v.t = "null" THEN <<"None">> ELSE JsonDumps(v)

\* f"{class_name}: {confidence:.2f}"
LabelText(class_name, confidence) == StrOf(class_name) \o <<":", " ">> \o Format2f(confidence.n)

DrawOp(op, i, cls, color, xy, text) ==
  [op |-> op, i |-> i, cls |-> cls, color |-> color, xy |-> xy, text |-> text]

Outcome(colors, image, exc) == [colors |-> colors, image |-> image, exc |-> exc]

\* a color drawn afresh for every detection
AssignColorAfresh(colors, class_name, col) ==
  [c \in DOMAIN colors \cup {class_name} |-> IF c = class_name THEN col ELSE colors[c]]

\* if class_name not in colors: colors[class_name] = (random color)
AssignColor(colors, class_name, col) ==
  IF class_name \in DOMAIN colors THEN colors ELSE colors @@ (class_name :> col)

\* The body of the loop from the color lookup to the label text, the same in
\* visualize.py and detect-objects.py.  col is the color random.randint yields,
\* strict says whether Pillow rejects a box with x2 < x1 or y2 < y1.
Render(class_name, confidence, bbox, colors, image, i, col, width, height, strict) ==
  IF ~Hashable(class_name) THEN Outcome(colors, image, "TypeError")
  ELSE
    LET colors2 == AssignColor(colors, class_name, col)
        x1 == Coord(bbox, 0, width)
        y1 == Coord(bbox, 1, height)
        x2 == Coord(bbox, 2, width)
        y2 == Coord(bbox, 3, height)
        box_color == colors2[class_name]
        image2 == Append(image,
                    DrawOp("box", i, class_name, box_color, <<x1.v, y1.v, x2.v, y2.v>>, <<>>))
        label_text == LabelText(class_name, confidence)
    IN  CASE ~x1.ok -> Outcome(colors2, image, x1.exc)
          [] x1.ok /\ ~y1.ok -> Outcome(colors2, image, y1.exc)
          [] x1.ok /\ y1.ok /\ ~x2.ok -> Outcome(colors2, image, x2.exc)
          [] x1.ok /\ y1.ok /\ x2.ok /\ ~y2.ok -> Outcome(colors2, image, y2.exc)
          [] OTHER ->
               IF strict /\ (x2.v < x1.v \/ y2.v < y1.v)
                 THEN Outcome(colors2, image, "ValueError")
               ELSE IF confidence.t # "num"
                 THEN Outcome(colors2, image2, "TypeError")
               ELSE Outcome(colors2,
                      image2 \o <<DrawOp("label_bg", i, class_name, box_color,
                                         <<x1.v, y1.v - 25>>, label_text),
                                  DrawOp("label_text", i, class_name, "white",
                                         <<x1.v, y1.v - 25>>, label_text)>>,
                      "")

\* visualize.py: one pass of the loop body, inside its try
VisualizeDrawOne(detection, colors, image, i, col, width, height, strict) ==
  IF detection.t # "obj" THEN Outcome(colors, image, "AttributeError")
  ELSE
    LET class_name == GetOr(detection, <<"class">>, None)
        confidence == GetOr(detection, <<"confidence">>, Num(0))
        bbox == GetOr(detection, <<"bounding_box">>, None)
    IN  IF ~(Truthy(class_name) /\ Truthy(bbox)) THEN Outcome(colors, image, "skip")
        ELSE Render(class_name, confidence, bbox, colors, image, i, col, width, height, strict)

\* detect-objects.py: one pass of the loop body, which has no try
DetectDrawOne(detection, colors, image, i, col, width, height, strict) ==
  IF detection.t # "obj" THEN Outcome(colors, image, "TypeError")
  ELSE IF ~Has(detection, <<"class">>) \/ ~Has(detection, <<"confidence">>)
          \/ ~Has(detection, <<"bounding_box">>)
    THEN Outcome(colors, image, "KeyError")
  ELSE Render(Item(detection, <<"class">>), Item(detection, <<"confidence">>),
              Item(detection, <<"bounding_box">>), colors, image, i, col, width, height, strict)

\* a normalizer that also takes the records under `vehicles`
NormalizeWithVehicles(detections_json) ==
  IF detections_json.t = "obj" /\ Has(detections_json, <<"detections">>)
    THEN IF Has(detections_json, <<"vehicles">>)
           /\ Item(detections_json, <<"detections">>).t = "arr"
           THEN Arr(Item(detections_json, <<"detections">>).a
                    \o Elements(Item(detections_json, <<"vehicles">>)))
           ELSE Item(detections_json, <<"detections">>)
  ELSE IF detections_json.t = "arr" THEN detections_json
  ELSE Arr(<<detections_json>>)

\* visualize.py: the canonical sequence of the three accepted shapes
Normalize(detections_json) ==
  IF detections_json.t = "obj" /\ Has(detections_json, <<"detections">>)
    THEN Item(detections_json, <<"detections">>)
  ELSE IF detections_json.t = "obj" THEN Arr(<<detections_json>>)
  ELSE IF detections_json.t = "arr" THEN detections_json
  ELSE Arr(<<detections_json>>)

\* [c.lower() for c in filter_classes]
LowerAll(filter_classes) == [j \in DOMAIN filter_classes.a |-> Lower(filter_classes.a[j].s)]

InList(s, list) == \E j \in DOMAIN list : list[j] = s

RECURSIVE KeepMatching(_, _, _)
KeepMatching(items, j, allowed) ==
  IF j > Len(items) THEN <<>>
  ELSE (IF InList(Lower(GetOr(items[j], <<"class">>, Str(<<>>)).s), allowed)
          THEN <<items[j]>> ELSE <<>>)
       \o KeepMatching(items, j + 1, allowed)

\* visualize.py: [d for d in detections if d.get('class', '').lower() in filter_classes]
VisualizeFilter(detections, filter_classes) ==
  LET items == Elements(detections)
  IN  IF ~Iterable(detections) THEN [ok |-> FALSE, v |-> detections, exc |-> "TypeError"]
      ELSE IF \E j \in DOMAIN items :
                \/ items[j].t # "obj"
                \/ GetOr(items[j], <<"class">>, Str(<<>>)).t # "str"
        THEN [ok |-> FALSE, v |-> detections, exc |-> "AttributeError"]
      ELSE [ok |-> TRUE, v |-> Arr(KeepMatching(items, 1, LowerAll(filter_classes))), exc |-> ""]

\* detect-objects.py: [d for d in detections_json if d['class'].lower() in filter_classes]
DetectFilter(detections, filter_classes) ==
  LET items == Elements(detections)
  IN  IF ~Iterable(detections) THEN [ok |-> FALSE, v |-> detections, exc |-> "TypeError"]
      ELSE IF \E j \in DOMAIN items : items[j].t # "obj"
        THEN [ok |-> FALSE, v |-> detections, exc |-> "TypeError"]
      ELSE IF \E j \in DOMAIN items : ~Has(items[j], <<"class">>)
        THEN [ok |-> FALSE, v |-> detections, exc |-> "KeyError"]
      ELSE IF \E j \in DOMAIN items : Item(items[j], <<"class">>).t # "str"
        THEN [ok |-> FALSE, v |-> detections, exc |-> "AttributeError"]
      ELSE [ok |-> TRUE, v |-> Arr(KeepMatching(items, 1, LowerAll(filter_classes))), exc |-> ""]

(***************************************************************************)
(* detect_objects: the vehicle summary (the same code in detect-objects.py *)
(* and ha-detect-object-details.py).                                       *)
(***************************************************************************)
RECURSIVE Join(_, _, _)
\* sep.join(parts) from part j on
Join(parts, j, sep) ==
  IF j > Len(parts) THEN <<>>
  ELSE (IF j > 1 THEN sep ELSE <<>>) \o parts[j] \o Join(parts, j + 1, sep)

\* the desc list of one vehicle: the truthy color, make, model, then the plate
VehicleDesc(vehicle) ==
  LET field(k) == GetOr(vehicle, <<k>>, None)
      plain(k) == IF Truthy(field(k)) THEN <<field(k)>> ELSE <<>>
      plate == IF Truthy(field("license_plate"))
                 THEN <<Str(<<"plate", ":", " ">> \o StrOf(field("license_plate")))>>
                 ELSE <<>>
  IN  plain("color") \o plain("make") \o plain("model") \o plate

\* one pass of `for vehicle in analysis['vehicles']`: the line it appends, if any
VehicleLine(vehicle) ==
  IF vehicle.t # "obj" THEN [ok |-> FALSE, lines |-> <<>>, exc |-> "AttributeError"]
  ELSE
    LET desc == VehicleDesc(vehicle)
    IN  IF desc = <<>> THEN [ok |-> TRUE, lines |-> <<>>, exc |-> ""]
        ELSE IF ~Has(vehicle, <<"type">>) THEN [ok |-> FALSE, lines |-> <<>>, exc |-> "KeyError"]
        ELSE IF Item(vehicle, <<"type">>).t # "str"
          THEN [ok |-> FALSE, lines |-> <<>>, exc |-> "AttributeError"]
        ELSE IF \E j \in DOMAIN desc : desc[j].t # "str"
          THEN [ok |-> FALSE, lines |-> <<>>, exc |-> "TypeError"]
        ELSE [ok |-> TRUE,
              lines |-> <<Upper(Item(vehicle, <<"type">>).s) \o <<":", " ">>
                          \o Join([j \in DOMAIN desc |-> desc[j].s], 1, <<" ">>)>>,
              exc |-> ""]

RECURSIVE SummaryFrom(_, _, _)
SummaryFrom(vehicles, j, acc) ==
  IF j > Len(vehicles) THEN [ok |-> TRUE, lines |-> acc, exc |-> ""]
  ELSE LET one == VehicleLine(vehicles[j])
       IN  IF ~one.ok THEN [ok |-> FALSE, lines |-> acc, exc |-> one.exc]
           ELSE SummaryFrom(vehicles, j + 1, acc \o one.lines)

\* the summary list of an analysis, or the exception its construction raises
VehicleSummary(analysis) ==
  IF ~(Has(analysis, <<"vehicles">>) /\ Truthy(Item(analysis, <<"vehicles">>)))
    THEN [ok |-> TRUE, lines |-> <<>>, exc |-> ""]
  ELSE IF ~Iterable(Item(analysis, <<"vehicles">>))
    THEN [ok |-> FALSE, lines |-> <<>>, exc |-> "TypeError"]
  ELSE SummaryFrom(Elements(Item(analysis, <<"vehicles">>)), 1, <<>>)

\* "\n".join(summary) if summary else "No vehicles detected"
SummaryText(lines) ==
  IF lines = <<>> THEN <<"No vehicles detected">> ELSE Join(lines, 1, <<"\n">>)

\* an extractor that stops at the first "}" after the first "{"
ExtractToFirstClose(result) ==
  LET start_idx == Find(result, "{")
      end_idx == Find(result, "}") + 1
  IN  IF start_idx # -1 /\ end_idx > start_idx
        THEN [found |-> TRUE, json_str |-> Slice(result, start_idx, end_idx)]
        ELSE [found |-> FALSE, json_str |-> <<>>]

\* result[start_idx:end_idx], or the reason there is nothing to parse
ExtractJsonStr(result) ==
  LET start_idx == Find(result, "{")
      end_idx == RFind(result, "}") + 1
  IN  IF start_idx # -1 /\ end_idx # -1
        THEN [found |-> TRUE, json_str |-> Slice(result, start_idx, end_idx)]
        ELSE [found |-> FALSE, json_str |-> <<>>]

File(text) == [exists |-> TRUE, text |-> text]
NoFile == [exists |-> FALSE, text |-> <<>>]

Return(v) == [kind |-> "return", v |-> v, exc |-> ""]
Raise(e) == [kind |-> "raise", v |-> None, exc |-> e]
Running == [kind |-> "running", v |-> None, exc |-> ""]

\* detect-objects.py detect_objects, from the raw response on: what it returns
\* or raises, and the two files as it leaves them
DetectObjectsExtract(result, full0, last0) ==
  LET ex == ExtractJsonStr(result)
      parsed == JsonLoads(ex.json_str)
      analysis == parsed.v
      summary == VehicleSummary(analysis)
  IN  IF ~ex.found THEN [ret |-> Return(None), full |-> full0, last |-> last0]
      ELSE IF ~parsed.ok THEN [ret |-> Return(None), full |-> full0, last |-> last0]
      ELSE IF ~summary.ok
        THEN [ret |-> Raise("Error processing response"),
              full |-> File(JsonDumps(analysis)), last |-> last0]
      ELSE [ret |-> Return(analysis),
            full |-> File(JsonDumps(analysis)), last |-> File(SummaryText(summary.lines))]

\* ha-detect-object-details.py detect_objects, from the raw response on
HaDetectObjectsExtract(result) ==
  LET ex == ExtractJsonStr(result)
      parsed == JsonLoads(ex.json_str)
      analysis == parsed.v
      summary == VehicleSummary(analysis)
  IN  IF ~ex.found THEN Return(None)
      ELSE IF ~parsed.ok THEN Raise("JSONDecodeError")
      ELSE IF ~summary.ok THEN Raise(summary.exc)
      ELSE Return(Obj(<<KV(<<"summary">>, Str(SummaryText(summary.lines))),
                        KV(<<"analysis">>, analysis)>>))

(***************************************************************************)
(* pathlib: a path string is a unit sequence with "/" units between the    *)
(* names; a name is a run of units, its suffix a last unit such as ".jpg". *)
(***************************************************************************)
RECURSIVE SplitParts(_, _, _, _)
\* the names of a path string, empty names and "." names dropped
SplitParts(s, j, cur, acc) ==
  LET done == IF cur = <<>> \/ cur = <<".">> THEN acc ELSE Append(acc, cur)
  IN  IF j > Len(s) THEN done
      ELSE IF s[j] = "/" THEN SplitParts(s, j + 1, <<>>, done)
      ELSE SplitParts(s, j + 1, Append(cur, s[j]), acc)

\* Path(s)
PathOf(s) == [abs |-> s # <<>> /\ s[1] = "/", parts |-> SplitParts(s, 1, <<>>, <<>>)]

\* str(path)
PathStr(path) == (IF path.abs THEN <<"/">> ELSE <<>>) \o Join(path.parts, 1, <<"/">>)

\* path.parent
Parent(path) ==
  [abs |-> path.abs,
   parts |-> IF path.parts = <<>> THEN <<>> ELSE SubSeq(path.parts, 1, Len(path.parts) - 1)]

SuffixUnits == {".jpg", ".png", ".dat"}

\* path.suffix and path.stem
Suffix(path) ==
  LET name == path.parts[Len(path.parts)]
  IN  IF Len(name) > 1 /\ name[Len(name)] \in SuffixUnits THEN <<name[Len(name)]>> ELSE <<>>

Stem(path) ==
  LET name == path.parts[Len(path.parts)]
  IN  SubSeq(name, 1, Len(name) - Len(Suffix(path)))

\* Path.home()
Home == [abs |-> TRUE, parts |-> <<<<"home">>, <<"user">>>>]

\* a resolver that puts the default file beside the source image
ResolveOutputBeside(source, explicit) ==
  IF explicit = None
    THEN [abs |-> source.abs,
          parts |-> Parent(source).parts
                      \o <<Stem(source) \o <<"-detect">> \o Suffix(source)>>]
    ELSE PathOf(explicit.s)

\* the output path draw_detections writes to
ResolveOutput(image_path, output_path) ==
  IF output_path = None
    THEN [abs |-> Home.abs,
          parts |-> Home.parts \o <<<<"Pictures">>,
                      Stem(image_path) \o <<"-detect">> \o Suffix(image_path)>>]
    ELSE PathOf(output_path.s)

\* path.mkdir(parents=True, exist_ok=True): the directory and its ancestors
WithParents(path) ==
  {[abs |-> path.abs, parts |-> SubSeq(path.parts, 1, k)] : k \in 0..Len(path.parts)}

\* image.save picks the format by the suffix and raises ValueError on one it does not know
SaveFormatKnown(path) == path.parts # <<>> /\ Suffix(path) \in {<<".jpg">>, <<".png">>}

(***************************************************************************)
(* detect-objects.py main, after draw_detections returned: the summary     *)
(* loop over what detect_objects returned.  TRUE when it raises.           *)
(***************************************************************************)
ReportRaises(detections, classes) ==
  LET items == Elements(detections)
  IN  \/ ~Iterable(detections)
      \/ \E j \in DOMAIN items :
           \/ items[j].t # "obj"
           \/ ~Has(items[j], <<"class">>)
           \/ Truthy(classes) /\ Item(items[j], <<"class">>).t # "str"
           \/ /\ ~Truthy(classes) \/ InList(Lower(Item(items[j], <<"class">>).s), LowerAll(classes))
              /\ \/ ~Has(items[j], <<"confidence">>)
                 \/ Item(items[j], <<"confidence">>).t # "num"

(***************************************************************************)
(* Inputs.                                                                 *)
(***************************************************************************)
Box(x1, y1, x2, y2) == Arr(<<Num(x1), Num(y1), Num(x2), Num(y2)>>)
Det(cls, conf, box) ==
  Obj(<<KV(<<"class">>, cls), KV(<<"confidence">>, conf), KV(<<"bounding_box">>, box)>>)

ValidCar == Det(Str(<<"Car">>), Num(90), Box(10, 20, 50, 60))
ValidTruck == Det(Str(<<"Truck">>), Num(50), Box(-10, 25, 150, 90))
ValidDog == Det(Str(<<"dog">>), Num(90), Box(10, 10, 40, 40))
NoConfidence == Obj(<<KV(<<"class">>, Str(<<"dog">>)), KV(<<"bounding_box">>, Box(25, 25, 50, 50))>>)
NoBox == Obj(<<KV(<<"class">>, Str(<<"car">>)), KV(<<"confidence">>, Num(90))>>)
NullBox == Det(Str(<<"car">>), Num(90), None)
NoClass == Obj(<<KV(<<"confidence">>, Num(90)), KV(<<"bounding_box">>, Box(10, 10, 40, 40))>>)
NullClass == Det(None, Num(90), Box(10, 10, 40, 40))
EmptyClass == Det(Str(<<>>), Num(90), Box(10, 10, 40, 40))
ShortBox == Det(Str(<<"car">>), Num(90), Arr(<<Num(10), Num(20), Num(50)>>))
LongBox == Det(Str(<<"car">>), Num(90), Arr(<<Num(10), Num(20), Num(50), Num(60), Num(90)>>))
TextBox == Det(Str(<<"car">>), Num(90), Arr(<<Num(10), Str(<<"a">>), Num(50), Num(60)>>))
ZeroTextBox == Det(Str(<<"car">>), Num(90),
                   Arr(<<Str(<<"0">>), Str(<<"0">>), Str(<<"0">>), Str(<<"0">>)>>))
NullConfidence == Det(Str(<<"Truck">>), None, Box(10, 20, 50, 60))
Inverted == Det(Str(<<"dog">>), Num(50), Box(50, 60, 10, 20))

RecordPool ==
  {ValidCar, ValidTruck, NoConfidence, NoBox, NullBox, NoClass, NullClass, EmptyClass,
   ShortBox, LongBox, TextBox, ZeroTextBox, NullConfidence, Inverted}

\* all sequences over S of length at most n
SeqsUpTo(S, n) == UNION {[1..k -> S] : k \in 0..n}

FullVehicle ==
  Obj(<<KV(<<"type">>, Str(<<"car">>)), KV(<<"make">>, Str(<<"Ford">>)),
        KV(<<"color">>, Str(<<"red">>)), KV(<<"license_plate">>, None)>>)
PlainVehicle == Obj(<<KV(<<"type">>, Str(<<"truck">>)), KV(<<"color">>, None)>>)
UntypedVehicle == Obj(<<KV(<<"color">>, Str(<<"red">>))>>)
NullTypeVehicle == Obj(<<KV(<<"type">>, None), KV(<<"make">>, Str(<<"Ford">>))>>)

\* records whose string fields hold braces
BraceDog == Det(Str(<<"dog", "}">>), Num(90), Box(10, 10, 40, 40))
BraceVehicle == Obj(<<KV(<<"type">>, Str(<<"car">>)), KV(<<"make">>, Str(<<"{", "Ford">>))>>)

VehicleLists ==
  {<<>>, <<FullVehicle>>, <<PlainVehicle>>, <<UntypedVehicle>>, <<FullVehicle, NullTypeVehicle>>}

\* the analyses the model's inference texts carry
Analyses ==
  {Obj(<<KV(<<"detections">>, Arr(ds))>>) : ds \in SeqsUpTo({ValidDog, NoBox}, MaxDet)}
  \cup {Obj(<<KV(<<"detections">>, Arr(ds)), KV(<<"vehicles">>, Arr(vs))>>) :
          ds \in {<<>>, <<ValidDog>>}, vs \in VehicleLists}
  \cup {Obj(<<KV(<<"vehicles">>, Arr(vs))>>) : vs \in VehicleLists}
  \cup {Obj(<<KV(<<"detections">>, Arr(<<BraceDog>>)), KV(<<"vehicles">>, Arr(<<BraceVehicle>>))>>),
        Obj(<<KV(<<"detections">>, Arr(<<ValidDog, BraceDog>>)), KV(<<"vehicles">>, Arr(<<>>))>>)}
  \cup {Obj(<<>>), Obj(<<KV(<<"note">>, Str(<<"{", "x">>))>>)}

\* what the model may write around and instead of the JSON block
Prose == SeqsUpTo({"here", "{", "}"}, MaxProse)
Bodies == {JsonDumps(an) : an \in Analyses} \cup {<<>>, <<"{", "oops", "}">>, <<"[", "0.1", "]">>}
Texts == {pre \o body \o post : pre \in Prose, body \in Bodies, post \in Prose}

Filters == {None, Arr(<<Str(<<"car">>)>>), Arr(<<Str(<<"TRUCK">>), Str(<<"dog">>)>>)}
Sizes == {<<1000, 500>>, <<15, 7>>}
\* random.randint(0, 255) three times: two colors stand for the 256^3
Palette == {"red", "blue"}

VisualizeInputs ==
  {Arr(ds) : ds \in SeqsUpTo(RecordPool, MaxDet)}
  \cup RecordPool
  \cup {Obj(<<KV(<<"detections">>, Arr(ds)), KV(<<"vehicles">>, Arr(<<FullVehicle>>))>>) :
          ds \in SeqsUpTo({ValidCar, ValidTruck, NoBox}, MaxDet)}
  \cup {Obj(<<KV(<<"vehicles">>, Arr(<<FullVehicle>>))>>),
        Obj(<<KV(<<"detections">>, None)>>), Str(<<"car">>)}

DetectDrawInputs ==
  {Arr(ds) : ds \in SeqsUpTo(RecordPool, MaxDet)}
  \cup {Obj(<<KV(<<"detections">>, Arr(<<ValidCar>>))>>)}

OutputPaths ==
  {Str(<<"/", "tmp", "/", "out", "/", "a", ".png">>),
   Str(<<"out", "/", "/", ".", "/", "b", ".jpg">>),
   Str(<<"/", "tmp", "/", "c", ".dat">>)}

ImagePath == PathOf(<<"/", "cam", "/", "snap", ".jpg">>)
Root == [abs |-> TRUE, parts |-> <<>>]
Cwd == [abs |-> FALSE, parts |-> <<>>]

\* the responses of the runs that follow the first one
LaterTexts == Bodies

Mains == {"detect_main", "ha_main"}
Draws == {"visualize_draw", "detect_draw"}

(***************************************************************************)
(* State.                                                                  *)
(***************************************************************************)
VARIABLES
  entry,            \* which script or function runs
  pc,               \* where the run is
  raw,              \* the text the inference call returns
  filter_classes,   \* --classes / filter_classes: None or a list of strings
  output_path,      \* --output / output_path: None or a path string
  size,             \* <<width, height>> of the image
  detections_json,  \* the argument of draw_detections
  detections,       \* the list draw_detections loops over
  idx,              \* the loop's next position, from 1
  colors,           \* the color table of the pass
  image,            \* the operations drawn on the image so far
  disk,             \* the annotated image on disk
  dirs,             \* the directories that exist
  detected,         \* what detect_objects returned or raised
  ret,              \* what draw_detections returned or raised
  exitCode,         \* the process exit code, -1 while running
  out,              \* what was printed
  full_analysis,    \* /tmp/llama_vision_full_analysis.json
  last_analysis     \* /tmp/llama_vision_last_analysis.txt

vars ==
  <<entry, pc, raw, filter_classes, output_path, size, detections_json, detections, idx,
    colors, image, disk, dirs, detected, ret, exitCode, out, full_analysis, last_analysis>>

NoImage == [exists |-> FALSE, path |-> <<>>, img |-> <<>>]

Init ==
  /\ detections = Arr(<<>>)
  /\ idx = 1
  /\ colors = <<>>
  /\ image = <<>>
  /\ disk = NoImage
  /\ dirs = {Root, Cwd}
  /\ detected = Running
  /\ ret = Running
  /\ exitCode = -1
  /\ out = <<>>
  /\ full_analysis = NoFile
  /\ last_analysis = NoFile
  /\ \/ /\ entry \in Mains
        /\ pc = "start"
        /\ raw \in Texts
        /\ filter_classes \in IF entry = "detect_main" THEN Filters ELSE {None}
        /\ output_path = None
        /\ size = <<1000, 500>>
        /\ detections_json = None
     \/ /\ entry \in Draws
        /\ pc = "draw"
        /\ raw = <<>>
        /\ \E fs \in (Filters \X {<<1000, 500>>}) \cup ({None} \X Sizes) :
             filter_classes = fs[1] /\ size = fs[2]
        /\ output_path = None
        /\ detections_json \in IF entry = "visualize_draw" THEN VisualizeInputs ELSE DetectDrawInputs
     \/ /\ entry \in Draws
        /\ pc = "draw"
        /\ raw = <<>>
        /\ filter_classes = None
        /\ output_path \in OutputPaths
        /\ size = <<1000, 500>>
        /\ detections_json \in {Arr(<<ValidCar>>), Arr(<<NoBox, ValidCar>>)}

(***************************************************************************)
(* Actions.                                                                *)
(***************************************************************************)
\* an exception leaves the entry: main catches it and exits with 1
Fails(e) ==
  /\ exitCode' = IF entry \in Mains THEN 1 ELSE exitCode
  /\ out' = IF entry \in Mains THEN Append(out, "Error") ELSE out
  /\ pc' = "done"

\* encode_image_to_base64 and the request to Ollama
Infer ==
  /\ pc = "start"
  /\ \E outcome \in {"ok", "Error encoding image", "Error making request to Ollama"} :
       IF outcome = "ok"
         THEN /\ pc' = "extract"
              /\ UNCHANGED <<detected, exitCode, out>>
         ELSE /\ detected' = Raise(outcome)
              /\ Fails(outcome)
  /\ UNCHANGED <<ret, entry, raw, filter_classes, output_path, size, detections_json, detections,
                 idx, colors, image, disk, dirs, full_analysis, last_analysis>>

\* the rest of detect_objects, and main up to the call of draw_detections
Extract ==
  /\ pc = "extract"
  /\ IF entry = "detect_main"
       THEN LET r == DetectObjectsExtract(raw, full_analysis, last_analysis)
            IN  /\ full_analysis' = r.full
                /\ last_analysis' = r.last
                /\ detected' = r.ret
                /\ IF r.ret.kind = "raise"
                     THEN /\ Fails(r.ret.exc)
                          /\ UNCHANGED detections_json
                   ELSE IF ~Truthy(r.ret.v)
                     THEN /\ out' = Append(out, "No objects detected or could not parse detections.")
                          /\ exitCode' = 0
                          /\ pc' = "done"
                          /\ UNCHANGED detections_json
                   ELSE /\ detections_json' = r.ret.v
                        /\ pc' = "draw"
                        /\ UNCHANGED <<exitCode, out>>
       ELSE LET r == HaDetectObjectsExtract(raw)
            IN  /\ detected' = r
                /\ IF r.kind = "raise"
                     THEN Fails(r.exc)
                     ELSE /\ out' = IF r.v = None THEN out ELSE Append(out, "output")
                          /\ exitCode' = 0
                          /\ pc' = "done"
                /\ UNCHANGED <<detections_json, full_analysis, last_analysis>>
  /\ UNCHANGED <<entry, raw, filter_classes, output_path, size, detections, idx, colors,
                 image, disk, dirs, ret>>

UsesVisualize == entry = "visualize_draw"

\* draw_detections up to its loop: the empty color table, the shape, the class filter
DrawBegin ==
  /\ pc = "draw"
  /\ LET shaped == IF UsesVisualize THEN Normalize(detections_json) ELSE detections_json
         kept == IF ~Truthy(filter_classes) THEN [ok |-> TRUE, v |-> shaped, exc |-> ""]
                 ELSE IF UsesVisualize THEN VisualizeFilter(shaped, filter_classes)
                 ELSE DetectFilter(shaped, filter_classes)
     IN  /\ colors' = <<>>
         /\ image' = <<>>
         /\ idx' = 1
         /\ IF ~kept.ok
              THEN /\ Fails(kept.exc)
                   /\ ret' = Raise(kept.exc)
                   /\ UNCHANGED detections
            ELSE IF ~Iterable(kept.v)
              THEN /\ Fails("TypeError")
                   /\ ret' = Raise("TypeError")
                   /\ detections' = kept.v
            ELSE /\ detections' = kept.v
                 /\ pc' = "loop"
                 /\ UNCHANGED <<ret, exitCode, out>>
  /\ UNCHANGED <<detected, entry, raw, filter_classes, output_path, size, detections_json, disk, dirs,
                 full_analysis, last_analysis>>

\* one pass of `for detection in detections`
DrawLoop ==
  /\ pc = "loop"
  /\ idx <= Len(Elements(detections))
  /\ \E col \in Palette, strict \in BOOLEAN :
       LET detection == Elements(detections)[idx]
           o == IF UsesVisualize
                  THEN VisualizeDrawOne(detection, colors, image, idx, col, size[1], size[2], strict)
                  ELSE DetectDrawOne(detection, colors, image, idx, col, size[1], size[2], strict)
       IN  /\ colors' = o.colors
           /\ image' = o.image
           /\ IF UsesVisualize \/ o.exc = ""
                THEN /\ idx' = idx + 1
                     /\ UNCHANGED <<pc, ret, exitCode, out>>
                ELSE /\ Fails(o.exc)
                     /\ ret' = Raise(o.exc)
                     /\ UNCHANGED idx
  /\ UNCHANGED <<detected, entry, raw, filter_classes, output_path, size, detections_json, detections,
                 disk, dirs, full_analysis, last_analysis>>

\* after the loop: the output path, its directory, the saved image, the return;
\* in detect-objects.py main the summary of the detections follows
DrawSave ==
  /\ pc = "loop"
  /\ idx > Len(Elements(detections))
  /\ LET path == ResolveOutput(ImagePath, output_path)
     IN  /\ dirs' = dirs \cup WithParents(Parent(path))
         /\ IF ~SaveFormatKnown(path)
              THEN /\ Fails("ValueError")
                   /\ ret' = Raise("ValueError")
                   /\ UNCHANGED disk
            ELSE /\ disk' = [exists |-> TRUE, path |-> PathStr(path), img |-> image]
                 /\ ret' = Return(Str(PathStr(path)))
                 /\ IF entry = "detect_main" /\ ReportRaises(detections_json, filter_classes)
                      THEN Fails("TypeError")
                      ELSE /\ exitCode' = IF entry = "detect_main" THEN 0 ELSE exitCode
                           /\ out' = Append(out, "Annotated image saved")
                           /\ pc' = "done"
  /\ UNCHANGED <<detected, entry, raw, filter_classes, output_path, size, detections_json, detections,
                 idx, colors, image, full_analysis, last_analysis>>

\* detect-objects.py is run again: a new process, the same command line, the
\* files of the runs before it still in place
Rerun ==
  /\ pc = "done"
  /\ entry = "detect_main"
  /\ pc' = "start"
  /\ raw' \in LaterTexts
  /\ detections_json' = None
  /\ detections' = Arr(<<>>)
  /\ idx' = 1
  /\ colors' = <<>>
  /\ image' = <<>>
  /\ detected' = Running
  /\ ret' = Running
  /\ exitCode' = -1
  /\ out' = <<>>
  /\ UNCHANGED <<entry, filter_classes, output_path, size, disk, dirs, full_analysis, last_analysis>>

Next == Infer \/ Extract \/ DrawBegin \/ DrawLoop \/ DrawSave \/ Rerun

Spec == Init /\ [][Next]_vars

(***************************************************************************)
(* What the claims speak of, stated without the code's own helpers.        *)
(***************************************************************************)
\* the text has a "{" and a later "}"
HasBlock(text) == \E i, j \in DOMAIN text : i < j /\ text[i] = "{" /\ text[j] = "}"

\* from the first "{" to the last "}", both included
Block(text) ==
  LET first == CHOOSE i \in DOMAIN text : text[i] = "{" /\ \A h \in DOMAIN text : text[h] = "{" => i <= h
      last == CHOOSE j \in DOMAIN text : text[j] = "}" /\ \A h \in DOMAIN text : text[h] = "}" => h <= j
  IN  [k \in 1..(last - first + 1) |-> text[first + k - 1]]

\* detect_objects got past the inference call and ended
Extracted ==
  /\ entry \in Mains
  /\ detected.kind # "running"
  /\ detected.exc \notin {"Error encoding image", "Error making request to Ollama"}

\* the parsed object detect_objects hands back (ha-detect-object-details.py
\* returns it as the "analysis" field of its output)
ReturnedAnalysis ==
  IF entry = "ha_main" /\ detected.v.t = "obj" /\ Has(detected.v, <<"analysis">>)
    THEN Item(detected.v, <<"analysis">>)
    ELSE detected.v

\* a detection record as the data model has it: a class label, a numeric
\* confidence if any, a box of four numbers with x1 <= x2 and y1 <= y2
WellFormed(r) ==
  /\ r.t = "obj"
  /\ Has(r, <<"class">>) /\ Item(r, <<"class">>).t = "str" /\ Item(r, <<"class">>).s # <<>>
  /\ Has(r, <<"confidence">>) => Item(r, <<"confidence">>).t = "num"
  /\ Has(r, <<"bounding_box">>)
  /\ LET b == Item(r, <<"bounding_box">>)
     IN  /\ b.t = "arr" /\ Len(b.a) = 4
         /\ \A k \in 1..4 : b.a[k].t = "num"
         /\ b.a[1].n <= b.a[3].n /\ b.a[2].n <= b.a[4].n

\* the boxes on an image, in drawing order
Boxes(img) == SelectSeq(img, LAMBDA op : op.op = "box")

(***************************************************************************)
(* C1: whenever the raw text has a "{" and a later "}" and the substring   *)
(* from the first "{" to the last "}" is valid JSON, detect_objects        *)
(* returns the object parsed from exactly that substring.                  *)
(***************************************************************************)
C1_ReturnsParsedBlock ==
  (Extracted /\ HasBlock(raw) /\ JsonLoads(Block(raw)).ok)
    => /\ detected.kind = "return"
       /\ ReturnedAnalysis = JsonLoads(Block(raw)).v

(***************************************************************************)
(* C2: whenever no block can be recovered (no "{" with a later "}", or the *)
(* substring is not valid JSON), detect_objects returns None without       *)
(* raising and the run ends with exit code 0, detect-objects.py reporting  *)
(* that nothing was detected.                                              *)
(***************************************************************************)
C2_NullResultWithoutRaising ==
  (Extracted /\ (~HasBlock(raw) \/ ~JsonLoads(Block(raw)).ok))
    => /\ detected = Return(None)
       /\ exitCode = 0
       /\ entry = "detect_main"
            => out = <<"No objects detected or could not parse detections.">>

(***************************************************************************)
(* C3: in detect-objects.py, whenever detect_objects returns an object     *)
(* whose `detections` is a non-empty list of well-formed records (and no   *)
(* class filter is given), the finished run has drawn one box per record   *)
(* in order, written the image and ended with exit code 0.                 *)
(***************************************************************************)
C3_DetectionsAreDrawn ==
  (/\ entry = "detect_main" /\ pc = "done"
   /\ Extracted /\ detected.kind = "return" /\ detected.v.t = "obj"
   /\ ~Truthy(filter_classes)
   /\ Has(detected.v, <<"detections">>)
   /\ LET ds == Item(detected.v, <<"detections">>)
      IN  ds.t = "arr" /\ ds.a # <<>> /\ \A k \in DOMAIN ds.a : WellFormed(ds.a[k]))
    => /\ exitCode = 0
       /\ disk.exists
       /\ LET ds == Item(detected.v, <<"detections">>)
          IN  /\ Len(Boxes(disk.img)) = Len(ds.a)
              /\ \A k \in DOMAIN ds.a : Boxes(disk.img)[k].cls = Item(ds.a[k], <<"class">>)

(***************************************************************************)
(* C4: visualize.py draw_detections loops over: the list itself for a bare *)
(* list, the value of `detections` for a dict that has the field, and the  *)
(* one-element list of the dict for any other dict; no other field of the  *)
(* input ever contributes an element.                                      *)
(***************************************************************************)
Canonical(input) ==
  CASE input.t = "arr" -> input
    [] input.t = "obj" /\ Has(input, <<"detections">>) -> Item(input, <<"detections">>)
    [] OTHER -> Arr(<<input>>)

C4_CanonicalSequence ==
  (entry = "visualize_draw" /\ pc # "draw" /\ detections_json.t \in {"arr", "obj"})
    => /\ ~Truthy(filter_classes) => detections = Canonical(detections_json)
       /\ \A j \in DOMAIN Elements(detections) :
            \E k \in DOMAIN Elements(Canonical(detections_json)) :
              Elements(detections)[j] = Elements(Canonical(detections_json))[k]

C4_Witness ==
  /\ entry = "visualize_draw" /\ pc = "loop"
  /\ detections_json.t = "obj"
  /\ Has(detections_json, <<"detections">>) /\ Has(detections_json, <<"vehicles">>)
  /\ detections = Arr(<<ValidCar, NoBox>>)

(***************************************************************************)
(* C5: in visualize.py, for a list of records each of which is well formed *)
(* or fails validation (class missing, null or empty; box missing or null) *)
(* and for any class filter, the call returns, the image is written, and   *)
(* the boxes on it are those of the well-formed records that pass the      *)
(* filter, in input order.                                                 *)
(***************************************************************************)
FailsValidation(r) ==
  /\ r.t = "obj"
  /\ \/ ~Has(r, <<"class">>)
     \/ Item(r, <<"class">>) \in {None, Str(<<>>)}
     \/ ~Has(r, <<"bounding_box">>)
     \/ Item(r, <<"bounding_box">>) = None

Matches(r, allow) ==
  /\ r.t = "obj" /\ Has(r, <<"class">>) /\ Item(r, <<"class">>).t = "str"
  /\ \E j \in DOMAIN allow.a : Lower(allow.a[j].s) = Lower(Item(r, <<"class">>).s)

\* the records the boxes of an image were drawn for
DrawnRecords(img) == [k \in DOMAIN Boxes(img) |-> Elements(detections)[Boxes(img)[k].i]]

C5_BadRecordNeverAbortsBatch ==
  (/\ entry = "visualize_draw" /\ pc = "done" /\ output_path = None
   /\ detections_json.t = "arr"
   /\ \A k \in DOMAIN detections_json.a :
        WellFormed(detections_json.a[k]) \/ FailsValidation(detections_json.a[k]))
    => /\ ret.kind = "return"
       /\ disk.exists
       /\ DrawnRecords(disk.img) =
            SelectSeq(detections_json.a,
                      LAMBDA r : WellFormed(r) /\ (Truthy(filter_classes) => Matches(r, filter_classes)))

(***************************************************************************)
(* C6: with a class filter, over a list of records each well formed or     *)
(* failing validation, the records kept for drawing are exactly those      *)
(* whose class label matches an allow-list entry case-insensitively, in    *)
(* input order; and the boxes finally drawn are those of validating first  *)
(* and filtering afterwards.                                               *)
(***************************************************************************)
C6_FilterKeepsMatchingRecords ==
  (/\ entry \in Draws /\ pc # "draw" /\ output_path = None
   /\ Truthy(filter_classes)
   /\ detections_json.t = "arr"
   /\ \A k \in DOMAIN detections_json.a :
        WellFormed(detections_json.a[k]) \/ FailsValidation(detections_json.a[k]))
    => /\ detections = Arr(SelectSeq(detections_json.a, LAMBDA r : Matches(r, filter_classes)))
       /\ pc = "done" =>
            /\ disk.exists
            /\ DrawnRecords(disk.img) =
                 SelectSeq(SelectSeq(detections_json.a, WellFormed),
                           LAMBDA r : Matches(r, filter_classes))

(***************************************************************************)
(* C7 as claimed: every drawn pixel coordinate is the normalized value     *)
(* times the image dimension, rounded to the nearest integer.              *)
(***************************************************************************)
\* the box a drawn operation was computed from, when it is four numbers
NumericBoxOf(op) ==
  LET r == Elements(detections)[op.i]
  IN  IF r.t = "obj" /\ Has(r, <<"bounding_box">>)
         /\ Item(r, <<"bounding_box">>).t = "arr"
         /\ Len(Item(r, <<"bounding_box">>).a) >= 4
         /\ \A k \in 1..4 : Item(r, <<"bounding_box">>).a[k].t = "num"
        THEN <<TRUE, [k \in 1..4 |-> Item(r, <<"bounding_box">>).a[k].n]>>
        ELSE <<FALSE, <<>>>>

Dim(k) == IF k \in {1, 3} THEN size[1] ELSE size[2]

\* p is an integer nearest to e/100
IsNearest(p, e) == 100 * p - e <= 50 /\ e - 100 * p <= 50

\* p is e/100 with its fraction dropped
IsTruncated(p, e) ==
  IF e >= 0 THEN 100 * p <= e /\ e < 100 * (p + 1)
            ELSE 100 * p >= e /\ e > 100 * (p - 1)

C7_PixelIsRounded ==
  entry \in Draws =>
    \A j \in DOMAIN image :
      (image[j].op = "box" /\ NumericBoxOf(image[j])[1]) =>
        \A k \in 1..4 : IsNearest(image[j].xy[k], NumericBoxOf(image[j])[2][k] * Dim(k))

(***************************************************************************)
(* C7 as amended: every drawn pixel coordinate is the normalized value     *)
(* times the image dimension with the fraction dropped (int(), truncation  *)
(* toward zero), each component on its own and without clamping;           *)
(* [0.1, 0.2, 0.5, 0.6] on 1000 x 500 gives [100, 100, 500, 300].          *)
(***************************************************************************)
C7_PixelIsTruncated ==
  entry \in Draws =>
    \A j \in DOMAIN image :
      (image[j].op = "box" /\ NumericBoxOf(image[j])[1]) =>
        /\ \A k \in 1..4 : IsTruncated(image[j].xy[k], NumericBoxOf(image[j])[2][k] * Dim(k))
        /\ (size = <<1000, 500>> /\ NumericBoxOf(image[j])[2] = <<10, 20, 50, 60>>)
             => image[j].xy = <<100, 100, 500, 300>>

C7_Witness ==
  /\ entry \in Draws /\ size = <<15, 7>>
  /\ \E j \in DOMAIN image :
       /\ image[j].op = "box"
       /\ NumericBoxOf(image[j]) = <<TRUE, <<-10, 25, 150, 90>>>>
       /\ image[j].xy = <<-1, 1, 22, 6>>

(***************************************************************************)
(* C8: within a render pass the color table only grows.  A pass starts     *)
(* from the empty table; a step of the loop keeps every entry as it is,    *)
(* adds at most one, and only for the label of the detection at hand; a    *)
(* well-formed detection leaves its label in the table; and every box and  *)
(* label background on the image has the color the table holds for its     *)
(* label.                                                                  *)
(***************************************************************************)
C8_Step ==
  /\ pc = "draw" => colors' = <<>>
  /\ pc = "loop" =>
       /\ \A c \in DOMAIN colors : c \in DOMAIN colors' /\ colors'[c] = colors[c]
       /\ Cardinality(DOMAIN colors' \ DOMAIN colors) <= 1
       /\ \A c \in DOMAIN colors' \ DOMAIN colors :
            /\ idx <= Len(Elements(detections))
            /\ Elements(detections)[idx].t = "obj"
            /\ GetOr(Elements(detections)[idx], <<"class">>, None) = c
       /\ (idx' = idx + 1 /\ WellFormed(Elements(detections)[idx])
           /\ Has(Elements(detections)[idx], <<"confidence">>))
            => Item(Elements(detections)[idx], <<"class">>) \in DOMAIN colors'
  /\ \A j \in DOMAIN image' :
       image'[j].op \in {"box", "label_bg"} =>
         /\ image'[j].cls \in DOMAIN colors'
         /\ image'[j].color = colors'[image'[j].cls]

C8_ColorTableOnlyGrows == [][C8_Step]_vars

C8_Witness ==
  /\ entry \in Draws /\ pc = "loop" /\ idx = 3
  /\ Len(Boxes(image)) = 2
  /\ Boxes(image)[1].cls = Boxes(image)[2].cls
  /\ Boxes(image)[1].color = Boxes(image)[2].color
  /\ DOMAIN colors = {Boxes(image)[1].cls}

(***************************************************************************)
(* C9: in visualize.py a box is drawn only for a record with a non-empty   *)
(* class label and a bounding box of exactly four numbers; a record with   *)
(* no `confidence` field gets the label "<class>: 0.00".                   *)
(***************************************************************************)
C9_OnlyValidRecordsDrawn ==
  entry = "visualize_draw" =>
    \A j \in DOMAIN image :
      LET r == Elements(detections)[image[j].i]
      IN  /\ image[j].op = "box" =>
               /\ Has(r, <<"class">>) /\ Item(r, <<"class">>).t = "str"
               /\ Item(r, <<"class">>).s # <<>>
               /\ Has(r, <<"bounding_box">>) /\ Item(r, <<"bounding_box">>).t = "arr"
               /\ Len(Item(r, <<"bounding_box">>).a) = 4
               /\ \A k \in 1..4 : Item(r, <<"bounding_box">>).a[k].t = "num"
          /\ (image[j].op = "label_text" /\ ~Has(r, <<"confidence">>)) =>
               image[j].text = Item(r, <<"class">>).s \o <<":", " ", "0", ".", "0", "0">>

(***************************************************************************)
(* C10: in both renderers, for a list of records and no class filter, a    *)
(* detection that cannot be drawn is skipped: the call returns the path,   *)
(* the image is written, and every well-formed record has its box on it.   *)
(***************************************************************************)
C10_RenderIsolation ==
  (/\ entry \in Draws /\ pc = "done" /\ output_path = None
   /\ ~Truthy(filter_classes)
   /\ detections_json.t = "arr"
   /\ \A k \in DOMAIN detections_json.a : detections_json.a[k].t = "obj")
    => /\ ret.kind = "return"
       /\ disk.exists
       /\ \A k \in DOMAIN detections_json.a :
            WellFormed(detections_json.a[k]) =>
              \E j \in DOMAIN disk.img : disk.img[j].op = "box" /\ disk.img[j].i = k

(***************************************************************************)
(* C11: whenever the recovered result has a `vehicles` list of records,    *)
(* some of them without a usable `type`, detect_objects still returns the  *)
(* analysis (ha-detect-object-details.py then ends with exit code 0), and  *)
(* the summary holds the lines of the records that have a type.            *)
(***************************************************************************)
\* a vehicle record with the field the summary line starts with
TypedVehicle(v) == v.t = "obj" /\ Has(v, <<"type">>) /\ Item(v, <<"type">>).t = "str"

\* the recovered result has a list of vehicle records
HasVehicleRecords(an) ==
  /\ an.t = "obj" /\ Has(an, <<"vehicles">>) /\ Item(an, <<"vehicles">>).t = "arr"
  /\ \A k \in DOMAIN Item(an, <<"vehicles">>).a : Item(an, <<"vehicles">>).a[k].t = "obj"

\* the summary text of the records that have a type
TypedSummary(an) ==
  SummaryText(SummaryFrom(SelectSeq(Item(an, <<"vehicles">>).a, TypedVehicle), 1, <<>>).lines)

C11_VehicleValidationNonFatal ==
  (/\ Extracted /\ HasBlock(raw) /\ JsonLoads(Block(raw)).ok
   /\ HasVehicleRecords(JsonLoads(Block(raw)).v))
    => /\ detected.kind = "return"
       /\ ReturnedAnalysis = JsonLoads(Block(raw)).v
       /\ entry = "ha_main" => exitCode = 0
       /\ entry = "detect_main"
            => last_analysis = File(TypedSummary(JsonLoads(Block(raw)).v))
       /\ entry = "ha_main"
            => Item(detected.v, <<"summary">>) = Str(TypedSummary(JsonLoads(Block(raw)).v))

(***************************************************************************)
(* C12 as claimed: when draw_detections returns, the image is on disk; for *)
(* an explicit output path the path written and the path returned are that *)
(* path verbatim; without one they are <home>/Pictures/<stem>-detect       *)
(* <suffix> of the source image; the parent directory exists.              *)
(***************************************************************************)
\* the default path for the source image /cam/snap.jpg
DefaultPath == <<"/", "home", "/", "user", "/", "Pictures", "/", "snap", "-detect", ".jpg">>

\* every proper prefix of the path's directory is an existing directory
ParentsExist(p) ==
  \A k \in 0..(Len(PathOf(p).parts) - 1) :
    [abs |-> PathOf(p).abs, parts |-> SubSeq(PathOf(p).parts, 1, k)] \in dirs

\* draw_detections came back with a path
DrawReturned == entry \in Draws /\ pc = "done" /\ ret.kind = "return"

C12_PathVerbatim ==
  DrawReturned =>
    /\ disk.exists /\ ret.v = Str(disk.path)
    /\ output_path # None => ret.v = output_path
    /\ output_path = None => disk.path = DefaultPath
    /\ ParentsExist(disk.path)

(***************************************************************************)
(* C12 as amended: when draw_detections returns, the image is on disk at   *)
(* the path returned; for an explicit output path that is the path in      *)
(* pathlib's normal form (the same names in the same order, absolute if    *)
(* and only if the given path is, empty and "." names dropped); without    *)
(* one it is <home>/Pictures/<stem>-detect<suffix> of the source image;    *)
(* the parent directory and its ancestors exist.                           *)
(***************************************************************************)
C12_PathNormalised ==
  DrawReturned =>
    /\ disk.exists /\ ret.v = Str(disk.path)
    /\ output_path # None =>
         /\ PathOf(disk.path) = PathOf(output_path.s)
         /\ \A k \in DOMAIN PathOf(disk.path).parts :
              PathOf(disk.path).parts[k] \notin {<<>>, <<".">>}
         /\ \A k \in 1..(Len(disk.path) - 1) : ~(disk.path[k] = "/" /\ disk.path[k + 1] = "/")
    /\ output_path = None => disk.path = DefaultPath
    /\ ParentsExist(disk.path)

C12_Witness ==
  /\ DrawReturned
  /\ output_path = Str(<<"out", "/", "/", ".", "/", "b", ".jpg">>)
  /\ ret.v = Str(<<"out", "/", "b", ".jpg">>)
  /\ disk.exists /\ disk.path = <<"out", "/", "b", ".jpg">>
  /\ [abs |-> FALSE, parts |-> <<<<"out">>>>] \in dirs

(***************************************************************************)
(* C13: for every canonical analysis result (a list of well-formed         *)
(* detections and a list of vehicle records), when the response text is    *)
(* its JSON serialization, the block from the first "{" to the last "}"    *)
(* is the whole text, it parses back to the result, the normalizer yields  *)
(* the original detections and the vehicles are the original ones,         *)
(* whatever braces the string fields hold; detect-objects.py stores that   *)
(* object in the full-analysis file, and what detect_objects returns is    *)
(* the original result.                                                    *)
(***************************************************************************)
IsCanonicalResult(a) ==
  /\ a.t = "obj" /\ Len(a.a) = 2
  /\ Has(a, <<"detections">>) /\ Item(a, <<"detections">>).t = "arr"
  /\ \A k \in DOMAIN Item(a, <<"detections">>).a : WellFormed(Item(a, <<"detections">>).a[k])
  /\ Has(a, <<"vehicles">>) /\ Item(a, <<"vehicles">>).t = "arr"
  /\ \A k \in DOMAIN Item(a, <<"vehicles">>).a : Item(a, <<"vehicles">>).a[k].t = "obj"

\* some string of the serialized record holds a brace
HoldsBrace(r) == \E k \in DOMAIN r.a : r.a[k].v.t = "str" /\ \E j \in DOMAIN r.a[k].v.s : r.a[k].v.s[j] \in {"{", "}"}

C14_ArtifactsConsistent ==
  (entry = "detect_main" /\ pc = "done") =>
    /\ full_analysis.exists <=> last_analysis.exists
    /\ full_analysis.exists =>
         LET stored == JsonLoads(full_analysis.text).v
         IN  /\ VehicleSummary(stored).ok
             /\ last_analysis.text = SummaryText(VehicleSummary(stored).lines)

(***************************************************************************)
(* C15: in visualize.py every pass of the loop either draws the outline    *)
(* box, the label background and the label text of its detection, or       *)
(* leaves the image and the color table exactly as they were.              *)
(***************************************************************************)
\* the pass drew the whole of detection i and nothing else
DrewWhole(before, after, i) ==
  /\ Len(after) = Len(before) + 3
  /\ SubSeq(after, 1, Len(before)) = before
  /\ <<after[Len(before) + 1].op, after[Len(before) + 2].op, after[Len(before) + 3].op>>
       = <<"box", "label_bg", "label_text">>
  /\ \A k \in 1..3 : after[Len(before) + k].i = i

C15_Step ==
  (entry = "visualize_draw" /\ pc = "loop" /\ idx' = idx + 1) =>
    \/ DrewWhole(image, image', idx)
    \/ image' = image /\ colors' = colors

C15_AllOrNothing == [][C15_Step]_vars

=============================================================================
